---- MODULE Spec2Model ----
(***************************************************************************)
(* qcelemental.molparse.to_schema: translation of a molparse molecule      *)
(* record into the 'psi4' form or into QCSchema molecule versions 1 and 2. *)
(*                                                                         *)
(* Modelling conventions                                                   *)
(*  - A Python dict is a TLA+ function from key strings to values.         *)
(*  - Every mutable Python object a record refers to (ndarray, list, dict) *)
(*    lives in `heap` under an address; the record holds [ref |-> address].*)
(*    Two fields are the same Python object iff they hold the same address.*)
(*  - Floats are fixed-point integers with Scale units per 1.0; a product  *)
(*    is rounded to the nearest unit, as a float product is rounded.       *)
(*  - dtype values are written as strings ("psi4", "1", "2", "3") so that  *)
(*    they are comparable; "1" and "2" stand for the integers 1 and 2.     *)
(*  - A name is a sequence of string tokens (the characters of the str).   *)
(*  - np.array(x, copy=False) follows the numpy 1.x meaning the code was   *)
(*    written for: no copy when x is already an ndarray, a new array       *)
(*    otherwise.                                                           *)
(***************************************************************************)
EXTENDS Integers, Sequences, FiniteSets, TLC

VARIABLES
    molrec,   \* the caller's molecule record (dict); mutable fields are refs
    heap,     \* address -> [kind, val] for every live mutable object
    units,    \* argument `units` of the caller's calls
    np_out,   \* keyword argument `np_out`
    copy,     \* keyword argument `copy`
    ret,      \* dtype -> outcome of the caller's latest call with that dtype
    dirty     \* the caller has written into an object since it built the record

vars == <<molrec, heap, units, np_out, copy, ret, dirty>>

----------------------------------------------------------------------------
(* Bounds *)

MaxNat == 2          \* atoms of a record in Init
MaxFragNat == 6      \* atoms of a record in InitFrag
MaxExtra == 1        \* coordinates beyond 3*nat in InitFrag (len(geom) % 3)
MaxSeps == 2         \* fragment separators of a record in InitFrag

----------------------------------------------------------------------------
(* Value domains *)

Scale == 1000

DTypes == {"psi4", "1", "2", "3"}

DeclaredUnits == {"Bohr", "Angstrom"}

RequestedUnits == {"Bohr", "Angstrom", "Hartree"}

OptionalKeys == {"name", "comment", "fix_symmetry", "connectivity", "input_units_to_au"}

RequiredKeys ==
    {"geom", "elem", "elez", "elea", "mass", "elbl", "real", "units",
     "molecular_charge", "molecular_multiplicity", "fragment_separators",
     "fragment_charges", "fragment_multiplicities", "fix_com",
     "fix_orientation", "provenance"}

\* keys of a molecule record whose value is a mutable object
MolrecRefKeys ==
    {"geom", "elem", "elez", "elea", "mass", "elbl", "real",
     "fragment_separators", "fragment_charges", "fragment_multiplicities",
     "provenance", "connectivity"}

\* keys of a QCSchema molecule whose value is a mutable object
MoleculeRefKeys ==
    {"symbols", "geometry", "masses", "atomic_numbers", "mass_numbers",
     "atom_labels", "real", "fragments", "fragment_charges",
     "fragment_multiplicities", "provenance", "connectivity"}

InAddr(k) == <<"in", k>>

OutAddr(dtype, k) == <<"out", dtype, k>>

Ref(a) == [ref |-> a]

Obj(kind, val) == [kind |-> kind, val |-> val]

----------------------------------------------------------------------------
(* Records the caller can hold *)

ElemPattern == <<"O", "H", "H", "O", "H", "H", "O", "H", "H">>

AtomicNumber(sym) == IF sym = "O" THEN 8 ELSE 1

MassNumber(sym) == IF sym = "O" THEN 16 ELSE 1

AtomicMass(sym) == IF sym = "O" THEN 15995 ELSE 1008

\* coordinate i of the geometry, in fixed point: negative, zero and positive values
Coordinate(i) == ((i * 1337) % 4001) - 2000

InputUnitsToAu == 1889

SetToSeq(S) ==
    LET RECURSIVE Build(_, _)
        Build(T, acc) ==
            IF T = {} THEN acc
            ELSE LET m == CHOOSE x \in T : \A y \in T : x <= y
                 IN Build(T \ {m}, Append(acc, m))
    IN Build(S, <<>>)

\* the record and the objects it refers to, for nat atoms, `extra` trailing
\* coordinates, fragment separators `seps`, the optional keys `opt`
MolrecOf(nat, extra, seps, declared, opt) ==
    LET elem == SubSeq(ElemPattern, 1, nat)
        nfr  == Len(seps) + 1
        req  == [k \in RequiredKeys |->
                   CASE k = "units" -> declared
                     [] k = "molecular_charge" -> 0
                     [] k = "molecular_multiplicity" -> 1
                     [] k = "fix_com" -> FALSE
                     [] k = "fix_orientation" -> TRUE
                     [] OTHER -> Ref(InAddr(k))]
        optv == [k \in opt |->
                   CASE k = "name" -> <<"w", "a", "t">>
                     [] k = "comment" -> "QM region"
                     [] k = "fix_symmetry" -> "c1"
                     [] k = "connectivity" -> Ref(InAddr(k))
                     [] k = "input_units_to_au" -> InputUnitsToAu]
    IN req @@ optv

HeapOf(nat, extra, seps, opt, arrays) ==
    LET elem == SubSeq(ElemPattern, 1, nat)
        nfr  == Len(seps) + 1
        ak   == IF arrays THEN "ndarray" ELSE "list"
        keys == (MolrecRefKeys \ {"connectivity"}) \cup (opt \cap {"connectivity"})
    IN [a \in {InAddr(k) : k \in keys} |->
          LET k == a[2] IN
          CASE k = "geom" -> Obj(ak, [i \in 1..(3 * nat + extra) |-> Coordinate(i)])
            [] k = "elem" -> Obj(ak, elem)
            [] k = "elez" -> Obj(ak, [i \in 1..nat |-> AtomicNumber(elem[i])])
            [] k = "elea" -> Obj(ak, [i \in 1..nat |-> MassNumber(elem[i])])
            [] k = "mass" -> Obj(ak, [i \in 1..nat |-> AtomicMass(elem[i])])
            [] k = "elbl" -> Obj(ak, [i \in 1..nat |-> ""])
            [] k = "real" -> Obj(ak, [i \in 1..nat |-> TRUE])
            [] k = "fragment_separators" -> Obj(ak, seps)
            [] k = "fragment_charges" -> Obj("list", [i \in 1..nfr |-> 0])
            [] k = "fragment_multiplicities" -> Obj("list", [i \in 1..nfr |-> 1])
            [] k = "provenance" ->
                 Obj("dict", [creator |-> "QCElemental", routine |-> "from_string"])
            [] k = "connectivity" ->
                 Obj("list", [i \in 1..(IF nat > 1 THEN nat - 1 ELSE 0) |-> <<0, i, 1>>])]

----------------------------------------------------------------------------
(* Collaborators of to_schema *)

LengthUnits == {"Bohr", "Angstrom"}

\* constants.conversion_factor(base_unit, conv_unit): the outcomes of the lookup.
\* Between length units it returns the table's factor.  For a pair with a
\* unit that is no length nothing is specified: the lookup either fails with
\* its own error or returns some factor.
conversion_factor(base_unit, conv_unit) ==
    IF base_unit \in LengthUnits /\ conv_unit \in LengthUnits
    THEN {[ok |-> TRUE,
           factor |-> CASE base_unit = conv_unit -> Scale
                        [] base_unit = "Bohr" -> 529
                        [] OTHER -> 1890]}
    ELSE {[ok |-> FALSE, factor |-> 0], [ok |-> TRUE, factor |-> 2 * Scale]}

CountToken == <<"1", "2", "3", "4", "5", "6", "7", "8", "9">>

\* formula_generator(elem): the element symbols in sorted order, each followed
\* by its count unless the count is 1
formula_generator(elem) ==
    LET Count(sym) == Cardinality({i \in DOMAIN elem : elem[i] = sym})
        Part(sym) == CASE Count(sym) = 0 -> <<>>
                       [] Count(sym) = 1 -> <<sym>>
                       [] OTHER -> <<sym, CountToken[Count(sym)]>>
    IN Part("H") \o Part("O")

\* copy.deepcopy of the object at address `src`: a new object, same type and value
deepcopy(h, src, fresh) == [addr |-> fresh, obj |-> h[src]]

----------------------------------------------------------------------------
(* Steps of to_schema.  A local Python object is [addr, obj]: its identity   *)
(* and its state.                                                          *)

\* np.array(molrec[k]) with the copy flag not honoured
np_arrayNeverCopies(h, src, cp, fresh) ==
    IF h[src].kind = "ndarray"
    THEN [addr |-> src, obj |-> h[src]]
    ELSE [addr |-> fresh, obj |-> Obj("ndarray", h[src].val)]

\* np.array(molrec[k], copy=copy)
np_array(h, src, cp, fresh) ==
    IF ~cp /\ h[src].kind = "ndarray"
    THEN [addr |-> src, obj |-> h[src]]
    ELSE [addr |-> fresh, obj |-> Obj("ndarray", h[src].val)]

\* x * f on floats
Mul(x, f) ==
    LET p == x * f
        a == IF p < 0 THEN -p ELSE p
        q == (a + (Scale \div 2)) \div Scale
    IN IF p < 0 THEN -q ELSE q

\* geom *= factor: the product is written into the array geom names
ScaleGeomInPlace(g, factor, fresh) ==
    [addr |-> g.addr,
     obj |-> Obj("ndarray", [i \in DOMAIN g.obj.val |-> Mul(g.obj.val[i], factor)])]

\* geom = geom * factor: the product is a new array bound to the name
ScaleGeom(g, factor, fresh) ==
    [addr |-> fresh,
     obj |-> Obj("ndarray", [i \in DOMAIN g.obj.val |-> Mul(g.obj.val[i], factor)])]

\* the if/else on the units without the elif for 'input_units_to_au'
UnitBranchTableOnly(rec, requested) ==
    IF rec["units"] = "Bohr" /\ requested = "Bohr" THEN "pass" ELSE "conversion_factor"

\* which arm of the if/elif/else on the units is taken
UnitBranch(rec, requested) ==
    CASE rec["units"] = "Bohr" /\ requested = "Bohr" -> "pass"
      [] rec["units"] = "Angstrom" /\ requested = "Bohr"
            /\ "input_units_to_au" \in DOMAIN rec -> "input_units_to_au"
      [] OTHER -> "conversion_factor"

\* the outcomes of the conversion lookup the call makes, if it makes one
Lookups(rec, requested) ==
    IF UnitBranch(rec, requested) = "conversion_factor"
    THEN conversion_factor(rec["units"], requested)
    ELSE {[ok |-> TRUE, factor |-> Scale]}

\* name = formula_generator(molrec['elem']), the record's name ignored
ResolveNameFormulaOnly(rec, h) == formula_generator(h[rec["elem"].ref].val)

\* molrec.get('name', formula_generator(molrec['elem']))
ResolveName(rec, h) ==
    IF "name" \in DOMAIN rec THEN rec["name"] ELSE formula_generator(h[rec["elem"].ref].val)

\* nat = geom.shape[0]
AtomCountOfCoordinates(geom) == Len(geom)

\* nat = geom.shape[0] // 3
AtomCount(geom) == Len(geom) \div 3

\* python slice ary[st:en] of a sequence, 0-based bounds, en clamped to the length
Slice(ary, st, en) == SubSeq(ary, st + 1, IF en > Len(ary) THEN Len(ary) ELSE en)

\* np.split(ary, indices): div_points = [0] + indices + [len(ary)]
np_split(ary, indices) ==
    LET div == <<0>> \o indices \o <<Len(ary)>>
    IN [i \in 1..(Len(indices) + 1) |-> Slice(ary, div[i], div[i + 1])]

\* np.arange(n)
arange(n) == [i \in 1..n |-> i - 1]

----------------------------------------------------------------------------
(* Error values: the exception class, the message template and its arguments *)

InvalidUnitsPsi4 == "Psi4 Schema {} allows only 'Bohr'/'Angstrom' coordinates, not {}."

InvalidUnitsQCSchema == "QC_JSON_Schema {} allows only 'Bohr' coordinates, not {}."

SchemaNotUnderstood == "Schema dtype not understood, valid options are {{'psi4', 1, 2}}. Found {}."

ValidationError(template, args) ==
    [class |-> "ValidationError", template |-> template, args |-> args]

\* the failure of the conversion lookup itself, raised inside the collaborator
ConversionError(base_unit, conv_unit) ==
    [class |-> "ConversionError", template |-> "conversion_factor",
     args |-> <<base_unit, conv_unit>>]

NoError == [class |-> "", template |-> "", args |-> <<>>]

Raised(err, steps) ==
    [outcome |-> [status |-> "raised", error |-> err, value |-> <<>>,
                  steps |-> Append(steps, "raise")],
     objs |-> <<>>]

Returned(value, objs, steps) ==
    [outcome |-> [status |-> "returned", error |-> NoError, value |-> value,
                  steps |-> Append(steps, "return")],
     objs |-> objs]

----------------------------------------------------------------------------
(* The schema builders *)

\* qcschema = deepcopy(molrec); qcschema['geom'] = geom; ['units'] = units; ['name'] = name
Psi4Schema(rec, h, geom, name, requested, dtype) ==
    LET refs == DOMAIN rec \cap MolrecRefKeys
        dc(k) == deepcopy(h, rec[k].ref, OutAddr(dtype, k))
        local(k) == IF k = "geom" THEN geom ELSE dc(k)
        q == [k \in DOMAIN rec \cup {"name"} |->
                CASE k = "units" -> requested
                  [] k = "name" -> name
                  [] k \in refs -> Ref(local(k).addr)
                  [] OTHER -> rec[k]]
    IN [rec |-> q,
        objs |-> [a \in {local(k).addr : k \in refs} |->
                    local(CHOOSE k \in refs : local(k).addr = a).obj]]

MoleculeBaseKeys ==
    {"validated", "symbols", "geometry", "masses", "atomic_numbers",
     "mass_numbers", "atom_labels", "name", "molecular_charge",
     "molecular_multiplicity", "real", "fragments", "fragment_charges",
     "fragment_multiplicities", "fix_com", "fix_orientation", "provenance"}

MoleculeOptionalKeys == {"comment", "fix_symmetry", "connectivity"}

\* masses made from 'elea' and mass_numbers from 'mass'
MolrecKeyOfSwapped(k) ==
    CASE k = "symbols" -> "elem"
      [] k = "masses" -> "elea"
      [] k = "atomic_numbers" -> "elez"
      [] k = "mass_numbers" -> "mass"
      [] k = "atom_labels" -> "elbl"
      [] OTHER -> k

\* the molrec key a molecule array is made from
MolrecKeyOf(k) ==
    CASE k = "symbols" -> "elem"
      [] k = "masses" -> "mass"
      [] k = "atomic_numbers" -> "elez"
      [] k = "mass_numbers" -> "elea"
      [] k = "atom_labels" -> "elbl"
      [] OTHER -> k

\* the statements molecule[...] = ... of the branch dtype in [1, 2]
Molecule(rec, h, geom, name, cp, dtype) ==
    LET nat  == AtomCount(geom.obj.val)
        keys == MoleculeBaseKeys \cup (MoleculeOptionalKeys \cap DOMAIN rec)
        refs == keys \cap MoleculeRefKeys
        src(k) == rec[MolrecKeyOf(k)].ref
        local(k) ==
            CASE k = "geometry" -> geom
              [] k \in {"symbols", "masses", "atomic_numbers", "mass_numbers",
                        "atom_labels", "real"} ->
                   np_array(h, src(k), cp, OutAddr(dtype, k))
              [] k = "fragments" ->
                   [addr |-> OutAddr(dtype, k),
                    obj |-> Obj("list",
                                np_split(arange(nat), h[rec["fragment_separators"].ref].val))]
              [] k \in {"fragment_charges", "fragment_multiplicities"} ->
                   [addr |-> OutAddr(dtype, k), obj |-> Obj("list", h[src(k)].val)]
              [] OTHER -> deepcopy(h, src(k), OutAddr(dtype, k))
        m == [k \in keys |->
                CASE k = "validated" -> TRUE
                  [] k = "name" -> name
                  [] k \in refs -> Ref(local(k).addr)
                  [] OTHER -> rec[k]]
    IN [rec |-> m,
        objs |-> [a \in {local(k).addr : k \in refs} |->
                    local(CHOOSE k \in refs : local(k).addr = a).obj]]

\* the update with the schema keys made before the test on dtype
EnvelopeAfterUpdate(dtype, molecule) ==
    LET tagged == [schema_name |-> "qcschema_molecule", schema_version |-> 2] @@ molecule
    IN IF dtype = "1"
       THEN [schema_name |-> "qcschema_input", schema_version |-> 1, molecule |-> tagged]
       ELSE tagged

\* the envelope of dtype 1, the in-place update of dtype 2
Envelope(dtype, molecule) ==
    IF dtype = "1"
    THEN [schema_name |-> "qcschema_input", schema_version |-> 1, molecule |-> molecule]
    ELSE [schema_name |-> "qcschema_molecule", schema_version |-> 2] @@ molecule

\* util.unnp on one dict level: the result is a new dict in which every array
\* has become a new plain list; plain lists and dicts keep their value and
\* belong to the result alone
unnpLevel(q, objs, h, dtype) ==
    LET refs == DOMAIN q \cap (MolrecRefKeys \cup MoleculeRefKeys)
        at(a) == IF a \in DOMAIN objs THEN objs[a] ELSE h[a]
        plain(o) == Obj(IF o.kind = "ndarray" THEN "list" ELSE o.kind, o.val)
    IN [rec |-> [k \in DOMAIN q |-> IF k \in refs THEN Ref(OutAddr(dtype, k)) ELSE q[k]],
        objs |-> [a \in {OutAddr(dtype, k) : k \in refs} |-> plain(at(q[a[3]].ref))]]

\* util.unnp(qcschema): recursive over nested dicts
unnp(q, objs, h, dtype) ==
    IF "molecule" \in DOMAIN q
    THEN LET inner == unnpLevel(q["molecule"], objs, h, dtype)
         IN [rec |-> [q EXCEPT !["molecule"] = inner.rec], objs |-> inner.objs]
    ELSE unnpLevel(q, objs, h, dtype)

----------------------------------------------------------------------------
(* to_schema(molrec, dtype, units, np_out=np_out, copy=copy)                *)

\* The body of to_schema for one outcome `conv` of the conversion lookup:
\* the outcome of the call and the objects it leaves behind.
Translate(rec, h, dtype, requested, npo, cp, conv) ==
    LET branch == UnitBranch(rec, requested)
        geom0  == np_array(h, rec["geom"].ref, cp, OutAddr(dtype, "geom"))
        geom   == CASE branch = "pass" -> geom0
                    [] branch = "input_units_to_au" ->
                         ScaleGeom(geom0, rec["input_units_to_au"], OutAddr(dtype, "geom"))
                    [] OTHER -> ScaleGeom(geom0, conv.factor, OutAddr(dtype, "geom"))
        s1     == <<"np.array">> \o
                  (CASE branch = "pass" -> <<>>
                     [] branch = "input_units_to_au" -> <<"multiply">>
                     [] OTHER -> <<"conversion_factor">>)
        name   == ResolveName(rec, h)
        s2     == (IF branch = "conversion_factor" THEN Append(s1, "multiply") ELSE s1)
                  \o <<"formula_generator">>
        finish(q, objs) ==
            IF npo THEN Returned(q, objs, Append(s2, "build"))
            ELSE LET u == unnp(q, objs, h, dtype)
                 IN Returned(u.rec, u.objs, s2 \o <<"build", "unnp">>)
        \* the array bound to geom, when it is an array of the caller
        held   == IF geom.addr = rec["geom"].ref THEN geom.addr :> geom.obj ELSE <<>>
        done(r) == [outcome |-> r.outcome, objs |-> r.objs @@ held]
    IN IF branch = "conversion_factor" /\ ~conv.ok
       THEN Raised(ConversionError(rec["units"], requested), s1)
       ELSE done(
            CASE dtype = "psi4" ->
                   IF requested \notin {"Angstrom", "Bohr"}
                   THEN Raised(ValidationError(InvalidUnitsPsi4, <<dtype, requested>>), s2)
                   ELSE LET p == Psi4Schema(rec, h, geom, name, requested, dtype)
                        IN finish(p.rec, p.objs)
              [] dtype \in {"1", "2"} ->
                   IF requested # "Bohr"
                   THEN Raised(ValidationError(InvalidUnitsQCSchema, <<dtype, requested>>), s2)
                   ELSE LET m == Molecule(rec, h, geom, name, cp, dtype)
                        IN finish(Envelope(dtype, m.rec), m.objs)
              [] OTHER -> Raised(ValidationError(SchemaNotUnderstood, <<dtype>>), s2))

\* the addresses of the objects of the result held for dtype
OutAddrs(h, dtype) == {a \in DOMAIN h : a[1] = "out" /\ a[2] = dtype}

Keep(h, S) == [a \in S |-> h[a]]

\* A call with the caller's keyword arguments.  The caller keeps the outcome
\* in place of the outcome of its earlier call with this dtype.
to_schema(dtype) ==
    \E conv \in Lookups(molrec, units) :
        LET t == Translate(molrec, heap, dtype, units, np_out, copy, conv)
        IN /\ ret' = [d \in DOMAIN ret \cup {dtype} |->
                        IF d = dtype THEN t.outcome ELSE ret[d]]
           /\ heap' = t.objs @@ Keep(heap, DOMAIN heap \ OutAddrs(heap, dtype))
           /\ UNCHANGED <<molrec, units, np_out, copy, dirty>>

----------------------------------------------------------------------------
(* The caller *)

\* the geometry object of the result held for dtype
ResultGeom(dtype) ==
    CASE dtype = "psi4" -> ret[dtype].value["geom"].ref
      [] dtype = "1" -> ret[dtype].value["molecule"]["geometry"].ref
      [] OTHER -> ret[dtype].value["geometry"].ref

HasResult(dtype) == dtype \in DOMAIN ret /\ ret[dtype].status = "returned"

\* the caller overwrites the first coordinate of a returned geometry with 1.0
MutateResult(dtype) ==
    /\ HasResult(dtype)
    /\ Len(heap[ResultGeom(dtype)].val) > 0
    /\ heap' = [heap EXCEPT ![ResultGeom(dtype)].val[1] = Scale]
    /\ dirty' = TRUE
    /\ UNCHANGED <<molrec, units, np_out, copy, ret>>

----------------------------------------------------------------------------
(* Specifications *)

Separators(nat) == {SetToSeq(S) : S \in {T \in SUBSET (0..nat) : Cardinality(T) <= MaxSeps}}

\* optional keys of the records of Init: each key alone, each key missing, none, all
OptionalChoices ==
    {S \in SUBSET OptionalKeys : Cardinality(S) <= 1 \/ Cardinality(OptionalKeys \ S) <= 1}

\* records of one fragment of up to MaxNat atoms, in either unit, holding
\* arrays or lists, with the optional keys of OptionalChoices
Init ==
    /\ \E nat \in 1..MaxNat, declared \in DeclaredUnits, arrays \in BOOLEAN :
         \E opt \in OptionalChoices :
            /\ molrec = MolrecOf(nat, 0, <<>>, declared, opt)
            /\ heap = HeapOf(nat, 0, <<>>, opt, arrays)
    /\ units \in RequestedUnits
    /\ np_out \in BOOLEAN
    /\ copy \in BOOLEAN
    /\ ret = <<>>
    /\ dirty = FALSE

\* records of up to MaxFragNat atoms, in Bohr, with up to MaxSeps separators
\* placed anywhere in [0, nat]
InitFrag ==
    /\ \E nat \in 0..MaxFragNat, extra \in 0..MaxExtra :
         \E seps \in Separators(nat) :
            /\ molrec = MolrecOf(nat, extra, seps, "Bohr", {})
            /\ heap = HeapOf(nat, extra, seps, {}, TRUE)
    /\ units = "Bohr"
    /\ np_out \in BOOLEAN
    /\ copy = TRUE
    /\ ret = <<>>
    /\ dirty = FALSE

Next ==
    \/ \E dtype \in DTypes : to_schema(dtype)
    \/ \E dtype \in DTypes : MutateResult(dtype)

Spec == Init /\ [][Next]_vars

SpecFrag == InitFrag /\ [][Next]_vars

----------------------------------------------------------------------------
(* Views used by the properties *)

Called(dtype) == dtype \in DOMAIN ret

StepsOf(dtype) == {ret[dtype].steps[i] : i \in DOMAIN ret[dtype].steps}

\* the molecule object M of a QCSchema result: the 'molecule' member of the
\* dtype 1 envelope, the dtype 2 result without its two schema keys
MoleculeOf(value, dtype) ==
    IF dtype = "1" THEN value["molecule"]
    ELSE [k \in DOMAIN value \ {"schema_name", "schema_version"} |-> value[k]]

\* the addresses a dict refers to
RefsOf(q) == {q[k].ref : k \in DOMAIN q \cap (MolrecRefKeys \cup MoleculeRefKeys)}

ResultRefs(dtype) ==
    IF dtype \in {"1", "2"} THEN RefsOf(MoleculeOf(ret[dtype].value, dtype))
    ELSE RefsOf(ret[dtype].value)

----------------------------------------------------------------------------
(* Error handling *)

\* C2: a psi4 call whose units are neither 'Bohr' nor 'Angstrom' fails with
\* the InvalidUnits ValidationError naming the schema and the unit, and the
\* check comes before any unit-conversion lookup.
C2_InvalidUnitsPsi4First ==
    (Called("psi4") /\ units \notin {"Bohr", "Angstrom"}) =>
        /\ ret["psi4"].status = "raised"
        /\ ret["psi4"].error = ValidationError(InvalidUnitsPsi4, <<"psi4", units>>)
        /\ "conversion_factor" \notin StepsOf("psi4")

\* C3: a dtype 1 or 2 call fails with the InvalidUnits ValidationError for
\* every units value other than 'Bohr', and raises no such error for 'Bohr'.
C3_InvalidUnitsQCSchema ==
    \A dtype \in {"1", "2"} :
        Called(dtype) =>
            IF units # "Bohr"
            THEN /\ ret[dtype].status = "raised"
                 /\ ret[dtype].error = ValidationError(InvalidUnitsQCSchema, <<dtype, units>>)
            ELSE ret[dtype].error.template # InvalidUnitsQCSchema

\* C4: a call with a dtype outside {'psi4', 1, 2} fails with the
\* SchemaNotUnderstood ValidationError naming the value, whatever the units.
C4_SchemaNotUnderstood ==
    \A dtype \in DTypes \ {"psi4", "1", "2"} :
        Called(dtype) =>
            /\ ret[dtype].status = "raised"
            /\ ret[dtype].error = ValidationError(SchemaNotUnderstood, <<dtype>>)

----------------------------------------------------------------------------
(* Fragments *)

\* the atom indices lo, lo+1, ..., hi-1
Run(lo, hi) == [i \in 1..(hi - lo) |-> lo + i - 1]

Flatten(groups) ==
    LET RECURSIVE Cat(_)
        Cat(j) == IF j = 0 THEN <<>> ELSE Cat(j - 1) \o groups[j]
    IN Cat(Len(groups))

\* s_1 < ... < s_k, all inside [0, N]
Ascending(s, N) ==
    \A i \in 1..Len(s) : 0 <= s[i] /\ s[i] <= N /\ (i > 1 => s[i - 1] < s[i])

FragmentsOf(dtype) == heap[MoleculeOf(ret[dtype].value, dtype)["fragments"].ref].val

\* C5: with N = len(geom) // 3 and separators s_1 < ... < s_k in [0, N], the
\* fragments of a dtype 1 or 2 result are the k+1 runs [s_j, s_j+1) with
\* s_0 = 0 and s_k+1 = N; they are disjoint and concatenate to 0 .. N-1; and
\* N = 6 with separators [2, 4] gives [[0,1],[2,3],[4,5]].
C5_FragmentsPartition ==
    \A dtype \in {"1", "2"} :
        LET N  == Len(heap[molrec["geom"].ref].val) \div 3
            s  == heap[molrec["fragment_separators"].ref].val
            k  == Len(s)
        IN (HasResult(dtype) /\ Ascending(s, N)) =>
            LET b(j) == IF j = 0 THEN 0 ELSE IF j = k + 1 THEN N ELSE s[j]
                fr == FragmentsOf(dtype)
            IN /\ Len(fr) = k + 1
               /\ \A j \in 1..(k + 1) : fr[j] = Run(b(j - 1), b(j))
               /\ Flatten(fr) = Run(0, N)
               /\ \A x \in 0..(N - 1) :
                    Cardinality({<<j, i>> \in (1..Len(fr)) \X (1..N) :
                                    i <= Len(fr[j]) /\ fr[j][i] = x}) = 1
               /\ (N = 6 /\ s = <<2, 4>>) => fr = <<<<0, 1>>, <<2, 3>>, <<4, 5>>>>

\* the example of C5 has been translated, from a geometry of 19 coordinates
C5_Witness ==
    /\ HasResult("2")
    /\ Ascending(heap[molrec["fragment_separators"].ref].val, 6)
    /\ Len(heap[molrec["geom"].ref].val) = 19
    /\ heap[molrec["fragment_separators"].ref].val = <<2, 4>>
    /\ FragmentsOf("2") = <<<<0, 1>>, <<2, 3>>, <<4, 5>>>>

----------------------------------------------------------------------------
(* Envelopes *)

DerefObjects(q, h) ==
    [k \in DOMAIN q |->
        IF k \in MolrecRefKeys \cup MoleculeRefKeys THEN h[q[k].ref] ELSE q[k]]

\* C6: for the same record and flags the dtype 1 result is exactly
\* {schema_name: 'qcschema_input', schema_version: 1, molecule: M}, M without
\* schema keys, and the dtype 2 result is M plus schema_name =
\* 'qcschema_molecule' and schema_version = 2.  (Both results as returned:
\* the caller has not written into them.)
C6_EnvelopeOnly ==
    (~dirty /\ HasResult("1") /\ HasResult("2")) =>
        LET r1 == ret["1"].value
            r2 == ret["2"].value
            M  == r1["molecule"]
        IN /\ DOMAIN r1 = {"schema_name", "schema_version", "molecule"}
           /\ r1["schema_name"] = "qcschema_input"
           /\ r1["schema_version"] = 1
           /\ DOMAIN M \cap {"schema_name", "schema_version"} = {}
           /\ DOMAIN r2 = DOMAIN M \cup {"schema_name", "schema_version"}
           /\ r2["schema_name"] = "qcschema_molecule"
           /\ r2["schema_version"] = 2
           /\ DerefObjects(MoleculeOf(r2, "2"), heap) = DerefObjects(M, heap)

\* both results are held, as arrays, for a record with a comment and without
\* connectivity
C6_Witness ==
    /\ ~dirty /\ HasResult("1") /\ HasResult("2")
    /\ "comment" \in DOMAIN ret["2"].value
    /\ "connectivity" \notin DOMAIN ret["2"].value
    /\ np_out

----------------------------------------------------------------------------
(* Aliasing *)

InputRefs == RefsOf(molrec)

\* C10 as claimed: whatever np_out and copy are, no object of a returned
\* record is an object of the caller's record.
C10_NoSharedObjects ==
    \A dtype \in DTypes : HasResult(dtype) => ResultRefs(dtype) \cap InputRefs = {}

\* C10 as amended: with copy true or np_out false, no object of a returned
\* record is an object of the caller's record.
C10_NoSharedObjectsUnlessViews ==
    (copy \/ ~np_out) => C10_NoSharedObjects

\* with copy and np_out both true, a Bohr record holding arrays has been
\* returned in Bohr as psi4 and as dtype 2
C10_Witness ==
    /\ copy /\ np_out /\ HasResult("psi4") /\ HasResult("2")
    /\ heap[molrec["geom"].ref].kind = "ndarray"
    /\ molrec["units"] = "Bohr" /\ units = "Bohr"

----------------------------------------------------------------------------
(* Unit conversion *)

\* the factor the constants table holds for a pair of length units
TableFactor(base_unit, conv_unit) ==
    (CHOOSE c \in conversion_factor(base_unit, conv_unit) : c.ok).factor

\* what a returning call with dtype has done to the geometry: the caller's
\* geometry before the call against the returned geometry after it
GeometryScaled(dtype) ==
    LET in       == heap[molrec["geom"].ref].val
        out      == heap'[ResultGeom(dtype)'].val
        declared == molrec["units"]
        steps    == StepsOf(dtype)'
    IN /\ Len(out) = Len(in)
       /\ CASE declared = "Bohr" /\ units = "Bohr" ->
                 /\ out = in
                 /\ steps \cap {"multiply", "conversion_factor"} = {}
            [] declared = "Angstrom" /\ units = "Bohr"
                  /\ "input_units_to_au" \in DOMAIN molrec ->
                 /\ \A i \in DOMAIN in : out[i] = Mul(in[i], molrec["input_units_to_au"])
                 /\ "conversion_factor" \notin steps
            [] OTHER ->
                 /\ \A i \in DOMAIN in : out[i] = Mul(in[i], TableFactor(declared, units))
                 /\ "conversion_factor" \in steps

\* C1: every call that returns has chosen the factor by the three-branch
\* precedence: Bohr to Bohr leaves the geometry as it is; else Angstrom to
\* Bohr with 'input_units_to_au' = F multiplies by F without consulting the
\* table; every other case multiplies by the table's factor.
\* (Stated as "the result is as claimed or the step is no call", which is the
\* implication from the call with its consequent evaluated first.)
C1_ThreeBranchPrecedence ==
    [][\A dtype \in DTypes :
          HasResult(dtype)' => (GeometryScaled(dtype) \/ ~to_schema(dtype))]_vars

\* a record in Angstrom with the key has been returned in Bohr, scaled by the
\* key's factor and not by the table's
C1_Witness ==
    /\ "input_units_to_au" \in DOMAIN molrec
    /\ molrec["units"] = "Angstrom" /\ units = "Bohr"
    /\ HasResult("psi4") /\ HasResult("1")
    /\ ~dirty
    /\ heap[ResultGeom("psi4")].val[1] = Mul(Coordinate(1), InputUnitsToAu)
    /\ heap[ResultGeom("psi4")].val[1] # Mul(Coordinate(1), TableFactor("Angstrom", "Bohr"))

----------------------------------------------------------------------------
(* Frame *)

\* the caller's record with the state of every object it refers to
InputObjects == DerefObjects(molrec, heap)

\* C7: no call, returning or failing, changes the caller's record: its key
\* set, its scalar fields and the state of every object it refers to.
\* (Stated as "the record is unchanged or the step is no call".)
C7_InputUnchanged ==
    [][\/ molrec' = molrec /\ InputObjects' = InputObjects
       \/ ~ \E dtype \in DTypes : to_schema(dtype)]_vars

\* a call has scaled a geometry made without a copy from the caller's array,
\* a second call has failed, and the caller's geometry is as it was built
C7_Witness ==
    /\ ~copy /\ np_out /\ ~dirty
    /\ heap[molrec["geom"].ref].kind = "ndarray"
    /\ molrec["units"] = "Angstrom" /\ units = "Bohr"
    /\ HasResult("psi4") /\ HasResult("2")
    /\ Called("3") /\ ret["3"].status = "raised"
    /\ heap[molrec["geom"].ref].val[1] = Coordinate(1)

\* the psi4 result after a step against the caller's record before it
Psi4Carried ==
    LET q == ret'["psi4"].value
    IN /\ DOMAIN q = DOMAIN molrec \cup {"name"}
       /\ GeometryScaled("psi4")
       /\ q["units"] = units
       /\ q["name"] = IF "name" \in DOMAIN molrec THEN molrec["name"]
                      ELSE formula_generator(heap[molrec["elem"].ref].val)
       /\ \A k \in DOMAIN molrec \ {"geom", "units", "name"} :
             IF k \in MolrecRefKeys
             THEN heap'[q[k].ref].val = heap[molrec[k].ref].val
             ELSE q[k] = molrec[k]

\* C8: a returning psi4 call gives the keys of the record plus 'name'; geom
\* is the scaled geometry, units the requested label, name the record's name
\* or else the generated formula; every other key has the record's value.
C8_Psi4Result ==
    [][HasResult("psi4")' => (Psi4Carried \/ ~to_schema("psi4"))]_vars

\* a record in Angstrom without a name has been returned in Bohr and one in
\* Bohr in Angstrom
C8_Witness ==
    /\ HasResult("psi4")
    /\ "name" \notin DOMAIN molrec
    /\ ret["psi4"].value["name"] = <<"H", "O">>
    /\ molrec["units"] # units
    /\ ret["psi4"].value["units"] = units
    /\ "comment" \in DOMAIN ret["psi4"].value

\* the molecule object dtype holds after a step against the caller's record
\* before it
MoleculeCarried(dtype) ==
    LET M == MoleculeOf(ret'[dtype].value, dtype)
        carried(k) == heap'[M[k].ref].val
        given(k) == heap[molrec[k].ref].val
    IN /\ DOMAIN M =
            {"validated", "symbols", "geometry", "masses", "atomic_numbers",
             "mass_numbers", "atom_labels", "name", "molecular_charge",
             "molecular_multiplicity", "real", "fragments", "fragment_charges",
             "fragment_multiplicities", "fix_com", "fix_orientation", "provenance"}
            \cup ({"comment", "fix_symmetry", "connectivity"} \cap DOMAIN molrec)
       /\ M["validated"] = TRUE
       /\ carried("symbols") = given("elem")
       /\ carried("masses") = given("mass")
       /\ carried("atomic_numbers") = given("elez")
       /\ carried("mass_numbers") = given("elea")
       /\ carried("atom_labels") = given("elbl")

\* C9: the molecule object of a returning dtype 1 or 2 call has exactly the
\* seventeen fixed keys plus each of comment, fix_symmetry, connectivity that
\* the record has; validated is true and symbols, masses, atomic_numbers,
\* mass_numbers, atom_labels equal elem, mass, elez, elea, elbl.
C9_MoleculeFields ==
    [][\A dtype \in {"1", "2"} :
          HasResult(dtype)' => (MoleculeCarried(dtype) \/ ~to_schema(dtype))]_vars

\* a record with only fix_symmetry among the optional keys has been returned
\* as dtype 1 and as dtype 2
C9_Witness ==
    /\ HasResult("1") /\ HasResult("2")
    /\ DOMAIN molrec \cap OptionalKeys = {"fix_symmetry"}
    /\ "fix_symmetry" \in DOMAIN ret["1"].value["molecule"]
    /\ "comment" \notin DOMAIN ret["2"].value
    /\ Len(heap[ret["2"].value["masses"].ref].val) = 2

====
